---- MODULE Spec2Model ----
(***************************************************************************)
(* Model of src/controller/device/v1/orderItemController.js: the twelve    *)
(* OrderItem request handlers, the data-access collaborator they call and  *)
(* the response envelope each request ends in.                             *)
(*                                                                         *)
(* One request is in flight at a time.  A handler runs in two steps, split *)
(* at its single `await`: the first step validates the request and either  *)
(* responds at once or issues the store call; the store then settles the   *)
(* call (a value, a no-match sentinel or a raised error); the second step  *)
(* maps that outcome to a response.                                        *)
(***************************************************************************)
EXTENDS Integers, Sequences, FiniteSets, TLC

VARIABLES
    db,        \* the OrderItem collection: stored _id -> document
    addedAt,   \* history: stored _id -> the addedBy the document was created with
    pc,        \* "idle" | "await" (call pending) | "settled" (call returned) | "responded"
    req,       \* the request being (or last) handled: [op, user, id, body]
    call,      \* the dbService call issued by the request: [fn, query, data]
    outcome,   \* how that call settled: [kind, value, error]
    resp,      \* the response of the request: [kind, message, data]
    trace      \* what the request did so far: "call", "settled", "response"

vars == <<db, addedAt, pc, req, call, outcome, resp, trace>>

----------------------------------------------------------------------------
(* Bounds of the model *)

MaxDocs == 1     \* identifiers the store can hand out (documents alive at once)
MaxBulk == 2     \* longest array a client sends in a bulk request

----------------------------------------------------------------------------
(* JavaScript values: a tag and a payload *)

Undefined == [t |-> "undefined", v |-> 0]
Null      == [t |-> "null", v |-> 0]
Str(s)    == [t |-> "string", v |-> s]
Num(n)    == [t |-> "number", v |-> n]
Arr(s)    == [t |-> "array", v |-> s]
Obj(o)    == [t |-> "object", v |-> o]

\* JavaScript truthiness, as `!x` and `if (x)` decide it
Truthy(x) ==
    CASE x.t = "undefined" -> FALSE
      [] x.t = "null"      -> FALSE
      [] x.t = "number"    -> x.v # 0
      [] x.t = "string"    -> x.v # ""
      [] OTHER             -> TRUE

\* Array.isArray
IsArray(x) == x.t = "array"

\* typeof x === 'object' && x !== null  (arrays are objects too)
IsObject(x) == x.t \in {"object", "array"}

\* A plain object is a function from its own keys to their values
EmptyObject == [k \in {} |-> ""]

\* { ...a, ...b }: keys of b override keys of a
Spread(a, b) == [k \in DOMAIN a \cup DOMAIN b |-> IF k \in DOMAIN b THEN b[k] ELSE a[k]]

\* delete o[key]
Delete(o, key) == [k \in DOMAIN o \ {key} |-> o[k]]

----------------------------------------------------------------------------
(* Identifiers.  An identifier string is described by what ObjectID.isValid *)
(* looks at: its length and whether it is all hexadecimal.                  *)

StoreIds == {[key |-> k, len |-> 24, hex |-> TRUE] : k \in 1..MaxDocs}

\* a well-formed identifier (12 characters) that is never stored
UnstoredId == [key |-> 0, len |-> 12, hex |-> FALSE]

\* what a client may send as the :id path parameter
ParamIds ==
    StoreIds \cup {UnstoredId,
                   [key |-> 0, len |-> 24, hex |-> FALSE]}   \* 24 characters, not hex

\* mongodb's ObjectID.isValid on a string: 12 characters, or 24 hex characters
ObjectIDisValid(id) == id.len = 12 \/ (id.len = 24 /\ id.hex)

----------------------------------------------------------------------------
(* Callers and client payloads *)

\* req.user.id of an authenticated caller
Users == {"U1", "U2"}

\* entity fields a client may put in a body; the audit fields carry a forged value
ClientValue == [addedBy |-> "attacker", updatedBy |-> "attacker"]

Bodies == {[k \in S |-> ClientValue[k]] : S \in SUBSET {"addedBy", "updatedBy"}}

\* arrays of up to MaxBulk elements drawn from S
ArraysOf(S) == UNION {[1..n -> S] : n \in 0..MaxBulk}

\* o[key], undefined when the key is absent
Get(o, key) == IF key \in DOMAIN o THEN o[key] ELSE Undefined

\* what a client may send as body.ids
IdsInputs ==
    {Undefined, Null, Num(0), Str("abc"), Obj(EmptyObject)}
        \cup {Arr(a) : a \in ArraysOf(StoreIds \cup {UnstoredId})}

\* what a client may send as body.data of a bulk insert
InsertInputs ==
    {Undefined, Str("abc"), Arr(<<Null>>)}
        \cup {Arr(a) : a \in ArraysOf({Obj(b) : b \in Bodies})}

\* what a client may send as body.data of a bulk update
UpdateInputs == {Undefined, Null, Str("abc")} \cup {Obj(b) : b \in Bodies}

\* what a client may send as body.filter / body.query / body.where:
\* nothing, a non-object, the empty filter or a filter on one _id
MatchAll == [all |-> TRUE, ids |-> {}]
FilterInputs == {Undefined, Obj(MatchAll)} \cup {Obj([all |-> FALSE, ids |-> {i}]) : i \in StoreIds}

----------------------------------------------------------------------------
(* Collaborators outside this file *)

\* validation.validateParamsWithJoi / validateFilterWithJoi -> {isValid, message}
ValidationResults ==
    {[isValid |-> TRUE, message |-> ""], [isValid |-> FALSE, message |-> "name must be a string"]}

\* the duplicate-key error code of the store
DuplicateKey == 11000

\* error objects the store raises: name, code (0: none) and message
ValidationFailure == [name |-> "ValidationError", code |-> 0, message |-> "Path orderId is required."]
DuplicateFailure  == [name |-> "MongoError", code |-> DuplicateKey, message |-> "E11000 duplicate key error"]
OtherFailure      == [name |-> "MongoNetworkError", code |-> 0, message |-> "connection closed"]
BulkDuplicateFailure == [name |-> "BulkWriteError", code |-> DuplicateKey, message |-> "E11000 duplicate key error"]
WriteErrors == {ValidationFailure, DuplicateFailure, BulkDuplicateFailure, OtherFailure}
ReadErrors  == {OtherFailure}

\* the TypeError the runtime raises on `null.addedBy = ...`
NullElementError == [name |-> "TypeError", code |-> 0, message |-> "Cannot set property 'addedBy' of null"]

----------------------------------------------------------------------------
(* Response envelope: res.ok, res.recordNotFound, ... *)

\* a template string: its fixed text and the interpolated value
Template(text, s) == [t |-> "string", v |-> <<text, s>>]

Envelope(kind, message, data) == [kind |-> kind, message |-> message, data |-> data]

ok(data)              == Envelope("ok", Undefined, data)
recordNotFound        == Envelope("recordNotFound", Undefined, Undefined)
badRequest            == Envelope("badRequest", Undefined, Undefined)
invalidObjectId       == Envelope("invalidObjectId", Undefined, Undefined)
inValidParam(message) == Envelope("inValidParam", message, Undefined)
validationError(message) == Envelope("validationError", message, Undefined)
isDuplicate           == Envelope("isDuplicate", Undefined, Undefined)
failureResponse(data) == Envelope("failureResponse", Undefined, data)

EnvelopeKinds ==
    {"ok", "recordNotFound", "badRequest", "invalidObjectId", "inValidParam",
     "validationError", "isDuplicate", "failureResponse"}

NoResponse == Envelope("none", Undefined, Undefined)
NoCall     == [fn |-> "none", query |-> MatchAll, data |-> Undefined]
NoOutcome  == [kind |-> "none", value |-> Undefined, error |-> OtherFailure]
NoId       == UnstoredId
NoRequest  == [op |-> "none", user |-> "U1", id |-> NoId, body |-> EmptyObject]

Request(op, user, id, body) == [op |-> op, user |-> user, id |-> id, body |-> body]

----------------------------------------------------------------------------
Init ==
    /\ db = [i \in {} |-> EmptyObject]
    /\ addedAt = [i \in {} |-> ""]
    /\ pc = "idle"
    /\ req = NoRequest
    /\ call = NoCall
    /\ outcome = NoOutcome
    /\ resp = NoResponse
    /\ trace = <<>>

\* a handler's first step ends in `return res.x(...)`: no store call was made
Reject(r, response) ==
    /\ req' = r
    /\ resp' = response
    /\ trace' = <<"response">>
    /\ call' = NoCall
    /\ outcome' = NoOutcome
    /\ pc' = "responded"
    /\ UNCHANGED <<db, addedAt>>

\* faulty variant: the `await` is missing, the handler responds while the call is pending
IssueWithoutAwait(r, fn, query, data) ==
    /\ req' = r
    /\ call' = [fn |-> fn, query |-> query, data |-> data]
    /\ trace' = <<"call", "response">>
    /\ resp' = ok(Undefined)
    /\ outcome' = NoOutcome
    /\ pc' = "responded"
    /\ UNCHANGED <<db, addedAt>>

\* a handler's first step reaches `await dbService.fn(...)`
Issue(r, fn, query, data) ==
    /\ req' = r
    /\ call' = [fn |-> fn, query |-> query, data |-> data]
    /\ trace' = <<"call">>
    /\ resp' = NoResponse
    /\ outcome' = NoOutcome
    /\ pc' = "await"
    /\ UNCHANGED <<db, addedAt>>

\* a handler's second step: the awaited call settled, the handler responds
Reply(response) ==
    /\ resp' = response
    /\ trace' = Append(trace, "response")
    /\ pc' = "responded"
    /\ UNCHANGED <<db, addedAt, req, call, outcome>>

\* the handler's promise resolves: the request is over, the next one may come
Return ==
    /\ pc = "responded"
    /\ pc' = "idle"
    /\ req' = NoRequest
    /\ call' = NoCall
    /\ outcome' = NoOutcome
    /\ resp' = NoResponse
    /\ trace' = <<>>
    /\ UNCHANGED <<db, addedAt>>

Resumed(op) == pc = "settled" /\ req.op = op
Returned == outcome.kind = "value"
Thrown   == outcome.kind = "error"

----------------------------------------------------------------------------
(* dbService: the data-access layer.  A call settles atomically: it returns *)
(* the record(s) or count, or its no-match sentinel, or it raises.          *)

Matched(query) == {i \in DOMAIN db : query.all \/ i \in query.ids}

\* position of identifier i among the identifiers S, by key
Rank(i, S) == Cardinality({j \in S : j.key <= i.key})

\* the documents with identifiers S, as a list
Listed(S) == [k \in 1..Cardinality(S) |-> db[CHOOSE i \in S : Rank(i, S) = k]]

\* the addedBy a document carries ("" when it has none)
AddedByOf(doc) == IF "addedBy" \in DOMAIN doc THEN doc["addedBy"] ELSE ""

Settle(o, newDb, newAddedAt) ==
    /\ outcome' = o
    /\ db' = newDb
    /\ addedAt' = newAddedAt
    /\ trace' = Append(trace, "settled")
    /\ pc' = "settled"
    /\ UNCHANGED <<req, call, resp>>

Value(v) == [kind |-> "value", value |-> v, error |-> OtherFailure]
Raised(e) == [kind |-> "error", value |-> Undefined, error |-> e]

WriteFns == {"createDocument", "bulkInsert", "bulkUpdate", "findOneAndUpdateDocument"}

\* any call may fail; only writes fail on the schema or on a unique index
dbServiceRaises ==
    /\ pc = "await"
    /\ \E e \in (IF call.fn \in WriteFns THEN WriteErrors ELSE ReadErrors) :
          Settle(Raised(e), db, addedAt)

createDocument ==
    /\ pc = "await" /\ call.fn = "createDocument"
    /\ \E i \in StoreIds \ DOMAIN db :
          Settle(Value(call.data),
                 [j \in DOMAIN db \cup {i} |-> IF j = i THEN call.data.v ELSE db[j]],
                 [j \in DOMAIN db \cup {i} |-> IF j = i THEN AddedByOf(call.data.v) ELSE addedAt[j]])

bulkInsert ==
    /\ pc = "await" /\ call.fn = "bulkInsert"
    /\ \E S \in SUBSET (StoreIds \ DOMAIN db) :
          /\ Cardinality(S) = Len(call.data.v)
          /\ Settle(Value(call.data),
                    [j \in DOMAIN db \cup S |->
                        IF j \in S THEN call.data.v[Rank(j, S)].v ELSE db[j]],
                    [j \in DOMAIN db \cup S |->
                        IF j \in S THEN AddedByOf(call.data.v[Rank(j, S)].v) ELSE addedAt[j]])

\* updateMany: sets the given fields on every match, returns how many matched
bulkUpdate ==
    /\ pc = "await" /\ call.fn = "bulkUpdate"
    /\ Settle(Value(Num(Cardinality(Matched(call.query)))),
              [j \in DOMAIN db |->
                  IF j \in Matched(call.query) THEN Spread(db[j], call.data.v) ELSE db[j]],
              addedAt)

deleteMany ==
    /\ pc = "await" /\ call.fn = "deleteMany"
    /\ Settle(Value(Num(Cardinality(Matched(call.query)))),
              [j \in DOMAIN db \ Matched(call.query) |-> db[j]],
              [j \in DOMAIN db \ Matched(call.query) |-> addedAt[j]])

\* with { new: true }: the document after the update, null when none matches
findOneAndUpdateDocument ==
    /\ pc = "await" /\ call.fn = "findOneAndUpdateDocument"
    /\ IF Matched(call.query) = {}
       THEN Settle(Value(Null), db, addedAt)
       ELSE \E i \in Matched(call.query) :
               Settle(Value(Obj(Spread(db[i], call.data.v))),
                      [db EXCEPT ![i] = Spread(db[i], call.data.v)],
                      addedAt)

findOneAndDeleteDocument ==
    /\ pc = "await" /\ call.fn = "findOneAndDeleteDocument"
    /\ IF Matched(call.query) = {}
       THEN Settle(Value(Null), db, addedAt)
       ELSE \E i \in Matched(call.query) :
               Settle(Value(Obj(db[i])),
                      [j \in DOMAIN db \ {i} |-> db[j]],
                      [j \in DOMAIN db \ {i} |-> addedAt[j]])

getSingleDocument ==
    /\ pc = "await" /\ call.fn = "getSingleDocument"
    /\ IF Matched(call.query) = {}
       THEN Settle(Value(Null), db, addedAt)
       ELSE \E i \in Matched(call.query) : Settle(Value(Obj(db[i])), db, addedAt)

countDocument ==
    /\ pc = "await" /\ call.fn = "countDocument"
    /\ Settle(Value(Num(Cardinality(Matched(call.query)))), db, addedAt)

\* a page: { data: [...] }
getAllDocuments ==
    /\ pc = "await" /\ call.fn = "getAllDocuments"
    /\ Settle(Value(Obj([data |-> Arr(Listed(Matched(call.query)))])), db, addedAt)

dbService ==
    \/ createDocument
    \/ bulkInsert
    \/ bulkUpdate
    \/ deleteMany
    \/ findOneAndUpdateDocument
    \/ findOneAndDeleteDocument
    \/ getSingleDocument
    \/ countDocument
    \/ getAllDocuments
    \/ dbServiceRaises

\* the filter a handler builds from one identifier: { _id: id }
ById(id) == [all |-> FALSE, ids |-> {id}]

\* { _id: { $in: ids } }
ByIds(ids) == [all |-> FALSE, ids |-> {ids[k] : k \in DOMAIN ids}]

----------------------------------------------------------------------------
(* The handlers.  Each is its first step (to the await or to an early      *)
(* return) or its second step (from the settled call to the response).     *)

\* lines 27-30: { ...req.body, addedBy: req.user.id }
addOrderItemData(body, user) == Spread(body, [addedBy |-> user])

\* lines 33-41
addOrderItemCatch(error) ==
    IF error.name = "ValidationError"
    THEN validationError(Template("Invalid Data, Validation Failed at ", error.message))
    ELSE IF Truthy(Num(error.code)) /\ error.code = DuplicateKey
         THEN isDuplicate
         ELSE failureResponse(Str(error.message))

addOrderItem ==
    \/ /\ pc = "idle"
       /\ \E user \in Users, body \in Bodies, validateRequest \in ValidationResults :
             LET r == Request("addOrderItem", user, NoId, body) IN
             IF ~validateRequest.isValid
             THEN Reject(r, inValidParam(Template("Invalid values in parameters, ",
                                                  validateRequest.message)))
             ELSE Issue(r, "createDocument", MatchAll, Obj(addOrderItemData(body, user)))
    \/ /\ Resumed("addOrderItem")
       /\ IF Returned
          THEN Reply(ok(outcome.value))
          ELSE Reply(addOrderItemCatch(outcome.error))

\* lines 63-65, 100-102, 176-178: a filter is taken only from a non-null object
FilterOf(x) == IF IsObject(x) THEN x.v ELSE MatchAll

findAllOrderItemCatch(error) == failureResponse(Str(error.message))

findAllOrderItem ==
    \/ /\ pc = "idle"
       /\ \E user \in Users, query \in FilterInputs, isCountOnly \in BOOLEAN,
             validateRequest \in ValidationResults :
             LET r == Request("findAllOrderItem", user, NoId,
                              [query |-> query, isCountOnly |-> isCountOnly]) IN
             IF ~validateRequest.isValid
             THEN Reject(r, inValidParam(Template("", validateRequest.message)))
             ELSE IF isCountOnly
                  THEN Issue(r, "countDocument", FilterOf(query), Undefined)
                  ELSE Issue(r, "getAllDocuments", FilterOf(query), Undefined)
    \/ /\ Resumed("findAllOrderItem")
       /\ IF Thrown
          THEN Reply(findAllOrderItemCatch(outcome.error))
          ELSE IF req.body.isCountOnly
               THEN Reply(ok(Obj([totalRecords |-> outcome.value])))
               ELSE IF /\ Truthy(outcome.value)
                       /\ Truthy(outcome.value.v.data)
                       /\ Len(outcome.value.v.data.v) # 0
                    THEN Reply(ok(outcome.value))
                    ELSE Reply(recordNotFound)

getOrderItemCountCatch(error) == failureResponse(Str(error.message))

getOrderItemCount ==
    \/ /\ pc = "idle"
       /\ \E user \in Users, where \in FilterInputs, validateRequest \in ValidationResults :
             LET r == Request("getOrderItemCount", user, NoId, [where |-> where]) IN
             IF ~validateRequest.isValid
             THEN Reject(r, inValidParam(Template("", validateRequest.message)))
             ELSE Issue(r, "countDocument", FilterOf(where), Undefined)
    \/ /\ Resumed("getOrderItemCount")
       /\ IF Thrown
          THEN Reply(getOrderItemCountCatch(outcome.error))
          ELSE Reply(ok(Obj([totalRecords |-> outcome.value])))

\* faulty variant: the length test is missing
InvalidIdsAllowsEmpty(ids) == ~Truthy(ids) \/ ~IsArray(ids)

\* lines 120, 207: !ids || !Array.isArray(ids) || ids.length < 1
InvalidIds(ids) == ~Truthy(ids) \/ ~IsArray(ids) \/ Len(ids.v) < 1

\* lines 124, 226
softDeleteBody == [isDeleted |-> TRUE]

softDeleteManyOrderItemCatch(error) == failureResponse(Undefined)

\* faulty variant: the `if (!data)` test is missing
softDeleteManyOrderItemResultAlwaysOk(data) == ok(data)

\* lines 126-129
softDeleteManyOrderItemResult(data) == IF ~Truthy(data) THEN recordNotFound ELSE ok(data)

softDeleteManyOrderItem ==
    \/ /\ pc = "idle"
       /\ \E user \in Users, ids \in IdsInputs :
             LET r == Request("softDeleteManyOrderItem", user, NoId, [ids |-> ids]) IN
             IF InvalidIds(ids)
             THEN Reject(r, badRequest)
             ELSE Issue(r, "bulkUpdate", ByIds(ids.v), Obj(softDeleteBody))
    \/ /\ Resumed("softDeleteManyOrderItem")
       /\ IF Thrown
          THEN Reply(softDeleteManyOrderItemCatch(outcome.error))
          ELSE Reply(softDeleteManyOrderItemResult(outcome.value))

\* line 144: req.body && (!Array.isArray(req.body.data) || req.body.data.length < 1)
InvalidInsertData(data) == ~IsArray(data) \/ Len(data.v) < 1

\* faulty variant: the stamping loop is missing
bulkInsertOrderItemDataUnstamped(data, user) == data

\* lines 148-152: every element is stamped, when the caller has an id
bulkInsertOrderItemData(data, user) ==
    IF Truthy(Str(user))
    THEN [i \in DOMAIN data |-> Obj(Spread(data[i].v, [addedBy |-> user]))]
    ELSE data

\* lines 155-163
bulkInsertOrderItemCatch(error) ==
    IF error.name = "ValidationError"
    THEN validationError(Template("Invalid Data, Validation Failed at ", error.message))
    ELSE IF Truthy(Num(error.code)) /\ error.code = DuplicateKey
         THEN isDuplicate
         ELSE failureResponse(Str(error.message))

bulkInsertOrderItem ==
    \/ /\ pc = "idle"
       /\ \E user \in Users, data \in InsertInputs :
             LET r == Request("bulkInsertOrderItem", user, NoId, [data |-> data]) IN
             IF InvalidInsertData(data)
             THEN Reject(r, badRequest)
             ELSE IF Truthy(Str(user)) /\ \E i \in DOMAIN data.v : data.v[i] = Null
                  THEN \* data[i].addedBy = ... throws on a null element
                       Reject(r, bulkInsertOrderItemCatch(NullElementError))
                  ELSE Issue(r, "bulkInsert", MatchAll,
                             Arr(bulkInsertOrderItemData(data.v, user)))
    \/ /\ Resumed("bulkInsertOrderItem")
       /\ IF Returned
          THEN Reply(ok(outcome.value))
          ELSE Reply(bulkInsertOrderItemCatch(outcome.error))

\* faulty variant: `delete data['addedBy']` is missing
bulkUpdateOrderItemDataKeepsAddedBy(data, user) ==
    Spread(Delete(data, "updatedBy"), [updatedBy |-> user])

\* lines 180-183
bulkUpdateOrderItemData(data, user) ==
    Spread(Delete(Delete(data, "addedBy"), "updatedBy"), [updatedBy |-> user])

bulkUpdateOrderItemCatch(error) == failureResponse(Str(error.message))

\* lines 186-189
bulkUpdateOrderItemResult(result) == IF ~Truthy(result) THEN recordNotFound ELSE ok(result)

bulkUpdateOrderItem ==
    \/ /\ pc = "idle"
       /\ \E user \in Users, filter \in FilterInputs, data \in UpdateInputs :
             LET r == Request("bulkUpdateOrderItem", user, NoId,
                              [filter |-> filter, data |-> data]) IN
             IF IsObject(data)
             THEN Issue(r, "bulkUpdate", FilterOf(filter),
                        Obj(bulkUpdateOrderItemData(data.v, user)))
             ELSE Reject(r, badRequest)
    \/ /\ Resumed("bulkUpdateOrderItem")
       /\ IF Thrown
          THEN Reply(bulkUpdateOrderItemCatch(outcome.error))
          ELSE Reply(bulkUpdateOrderItemResult(outcome.value))

\* faulty variant: the failure carries the message, as in most handlers
deleteManyOrderItemCatchWithMessage(error) == failureResponse(Str(error.message))

deleteManyOrderItemCatch(error) == failureResponse(Undefined)

deleteManyOrderItem ==
    \/ /\ pc = "idle"
       /\ \E user \in Users, ids \in IdsInputs :
             LET r == Request("deleteManyOrderItem", user, NoId, [ids |-> ids]) IN
             IF InvalidIds(ids)
             THEN Reject(r, badRequest)
             ELSE Issue(r, "deleteMany", ByIds(ids.v), Undefined)
    \/ /\ Resumed("deleteManyOrderItem")
       /\ IF Thrown
          THEN Reply(deleteManyOrderItemCatch(outcome.error))
          ELSE Reply(ok(outcome.value))

softDeleteOrderItemCatch(error) == failureResponse(Undefined)

\* lines 228-231
softDeleteOrderItemResult(result) == IF ~Truthy(result) THEN recordNotFound ELSE ok(result)

softDeleteOrderItem ==
    \/ /\ pc = "idle"
       /\ \E user \in Users, id \in ParamIds :
             Issue(Request("softDeleteOrderItem", user, id, EmptyObject),
                   "findOneAndUpdateDocument", ById(id), Obj(softDeleteBody))
    \/ /\ Resumed("softDeleteOrderItem")
       /\ IF Thrown
          THEN Reply(softDeleteOrderItemCatch(outcome.error))
          ELSE Reply(softDeleteOrderItemResult(outcome.value))

\* faulty variant: the two `delete req.body[...]` lines are missing
partialUpdateOrderItemDataKeepsKeys(body, user) == Spread([updatedBy |-> user], body)

\* lines 245-250: the audit keys are deleted from the body, then
\* { updatedBy: req.user.id, ...req.body }
partialUpdateOrderItemData(body, user) ==
    Spread([updatedBy |-> user], Delete(Delete(body, "addedBy"), "updatedBy"))

\* faulty variant: the catch block of updateOrderItem, copied
partialUpdateOrderItemCatchByKind(error) ==
    IF error.name = "ValidationError"
    THEN validationError(Template("Invalid Data, Validation Failed at ", error.message))
    ELSE IF Truthy(Num(error.code)) /\ error.code = DuplicateKey
         THEN isDuplicate
         ELSE failureResponse(Str(error.message))

partialUpdateOrderItemCatch(error) == failureResponse(Str(error.message))

\* lines 260-263
partialUpdateOrderItemResult(result) == IF ~Truthy(result) THEN recordNotFound ELSE ok(result)

partialUpdateOrderItem ==
    \/ /\ pc = "idle"
       /\ \E user \in Users, id \in ParamIds, body \in Bodies,
             validateRequest \in ValidationResults :
             LET r == Request("partialUpdateOrderItem", user, id, body) IN
             IF ~validateRequest.isValid
             THEN Reject(r, inValidParam(Template("Invalid values in parameters, ",
                                                  validateRequest.message)))
             ELSE Issue(r, "findOneAndUpdateDocument", ById(id),
                        Obj(partialUpdateOrderItemData(body, user)))
    \/ /\ Resumed("partialUpdateOrderItem")
       /\ IF Thrown
          THEN Reply(partialUpdateOrderItemCatch(outcome.error))
          ELSE Reply(partialUpdateOrderItemResult(outcome.value))

\* lines 277-282
updateOrderItemData(body, user) ==
    Spread([updatedBy |-> user], Delete(Delete(body, "addedBy"), "updatedBy"))

\* faulty variant: the duplicate-key branch is missing
updateOrderItemCatchNoDuplicate(error) ==
    IF error.name = "ValidationError"
    THEN validationError(Template("Invalid Data, Validation Failed at ", error.message))
    ELSE failureResponse(Str(error.message))

\* lines 296-304
updateOrderItemCatch(error) ==
    IF error.name = "ValidationError"
    THEN validationError(Template("Invalid Data, Validation Failed at ", error.message))
    ELSE IF Truthy(Num(error.code)) /\ error.code = DuplicateKey
         THEN isDuplicate
         ELSE failureResponse(Str(error.message))

\* lines 292-295
updateOrderItemResult(result) == IF ~Truthy(result) THEN recordNotFound ELSE ok(result)

updateOrderItem ==
    \/ /\ pc = "idle"
       /\ \E user \in Users, id \in ParamIds, body \in Bodies,
             validateRequest \in ValidationResults :
             LET r == Request("updateOrderItem", user, id, body) IN
             IF ~validateRequest.isValid
             THEN Reject(r, inValidParam(Template("Invalid values in parameters, ",
                                                  validateRequest.message)))
             ELSE Issue(r, "findOneAndUpdateDocument", ById(id),
                        Obj(updateOrderItemData(body, user)))
    \/ /\ Resumed("updateOrderItem")
       /\ IF Thrown
          THEN Reply(updateOrderItemCatch(outcome.error))
          ELSE Reply(updateOrderItemResult(outcome.value))

getOrderItemCatch(error) == failureResponse(Str(error.message))

\* lines 322-326
getOrderItemResult(result) == IF Truthy(result) THEN ok(result) ELSE recordNotFound

\* faulty variant: the ObjectID.isValid test is missing
getOrderItemUnchecked ==
    \/ /\ pc = "idle"
       /\ \E user \in Users, id \in ParamIds :
             Issue(Request("getOrderItem", user, id, EmptyObject),
                   "getSingleDocument", ById(id), Undefined)
    \/ /\ Resumed("getOrderItem")
       /\ IF Thrown
          THEN Reply(getOrderItemCatch(outcome.error))
          ELSE Reply(getOrderItemResult(outcome.value))

getOrderItem ==
    \/ /\ pc = "idle"
       /\ \E user \in Users, id \in ParamIds :
             LET r == Request("getOrderItem", user, id, EmptyObject) IN
             IF ~ObjectIDisValid(id)
             THEN Reject(r, invalidObjectId)
             ELSE Issue(r, "getSingleDocument", ById(id), Undefined)
    \/ /\ Resumed("getOrderItem")
       /\ IF Thrown
          THEN Reply(getOrderItemCatch(outcome.error))
          ELSE Reply(getOrderItemResult(outcome.value))

deleteOrderItemCatch(error) == failureResponse(Undefined)

\* lines 343-346
deleteOrderItemResult(result) == IF Truthy(result) THEN ok(result) ELSE recordNotFound

deleteOrderItem ==
    \/ /\ pc = "idle"
       /\ \E user \in Users, id \in ParamIds :
             Issue(Request("deleteOrderItem", user, id, EmptyObject),
                   "findOneAndDeleteDocument", ById(id), Undefined)
    \/ /\ Resumed("deleteOrderItem")
       /\ IF Thrown
          THEN Reply(deleteOrderItemCatch(outcome.error))
          ELSE Reply(deleteOrderItemResult(outcome.value))

Next ==
    \/ addOrderItem
    \/ findAllOrderItem
    \/ getOrderItemCount
    \/ softDeleteManyOrderItem
    \/ bulkInsertOrderItem
    \/ bulkUpdateOrderItem
    \/ deleteManyOrderItem
    \/ softDeleteOrderItem
    \/ partialUpdateOrderItem
    \/ updateOrderItem
    \/ getOrderItem
    \/ deleteOrderItem
    \/ dbService
    \/ Return

Spec == Init /\ [][Next]_vars

----------------------------------------------------------------------------
(* Properties *)

Responded == pc = "responded"

UpdateOps == {"partialUpdateOrderItem", "updateOrderItem", "bulkUpdateOrderItem"}

\* C1: in every update call (partial, full, bulk) the payload handed to the
\* store has no addedBy key, and its updatedBy is the caller's identity,
\* whatever addedBy/updatedBy the client sent.
C1_UpdatePayloadAudit ==
    (req.op \in UpdateOps /\ call.fn # "none") =>
        /\ call.fn \in {"findOneAndUpdateDocument", "bulkUpdate"}
        /\ "addedBy" \notin DOMAIN call.data.v
        /\ "updatedBy" \in DOMAIN call.data.v
        /\ call.data.v["updatedBy"] = req.user

\* a full update whose body forged both audit fields reached the store and succeeded
C1_Witness ==
    /\ Responded /\ req.op = "updateOrderItem" /\ resp.kind = "ok"
    /\ DOMAIN req.body = {"addedBy", "updatedBy"}
    /\ req.body["updatedBy"] # req.user

\* C2: the record addOrderItem hands to the store, and every element
\* bulkInsertOrderItem hands to the store, has addedBy equal to the caller's
\* identity, whatever addedBy the client input carried.
C2_CreateStampsAddedBy ==
    /\ call.fn = "createDocument" => AddedByOf(call.data.v) = req.user
    /\ call.fn = "bulkInsert" =>
          \A i \in DOMAIN call.data.v : AddedByOf(call.data.v[i].v) = req.user

\* a bulk insert whose first element forged addedBy was stored
C2_Witness ==
    /\ Responded /\ req.op = "bulkInsertOrderItem" /\ resp.kind = "ok"
    /\ AddedByOf(req.body.data.v[1].v) = "attacker"

\* C3: every stored record's addedBy is the one it was created with, after any
\* sequence of calls (no update or soft delete changes it, even when the body
\* carries an addedBy), and a successful full update leaves the record's
\* updatedBy equal to the caller's identity.
C3_AddedByNeverChanges ==
    /\ \A i \in DOMAIN db : AddedByOf(db[i]) = addedAt[i]
    /\ (Responded /\ req.op = "updateOrderItem" /\ resp.kind = "ok") =>
          /\ req.id \in DOMAIN db
          /\ Get(db[req.id], "updatedBy") = req.user

\* a caller other than the creator fully updated a record with a forged addedBy
C3_Witness ==
    /\ Responded /\ req.op = "updateOrderItem" /\ resp.kind = "ok"
    /\ "addedBy" \in DOMAIN req.body
    /\ req.id \in DOMAIN db
    /\ addedAt[req.id] # req.user
    /\ AddedByOf(db[req.id]) \in Users

BulkByIdsOps == {"softDeleteManyOrderItem", "deleteManyOrderItem"}

\* C4: in softDeleteManyOrderItem and deleteManyOrderItem, when body.ids is
\* absent, not an array or an empty array, the response is badRequest and the
\* request makes no store call.
C4_BadIdsNoStoreCall ==
    (/\ req.op \in BulkByIdsOps
     /\ (req.body.ids.t # "array" \/ Len(req.body.ids.v) = 0)) =>
        /\ Responded
        /\ resp = badRequest
        /\ call = NoCall
        /\ trace = <<"response">>

\* deleteManyOrderItem was called with an empty array
C4_Witness ==
    /\ Responded /\ req.op = "deleteManyOrderItem"
    /\ req.body.ids = Arr(<<>>)

NotFoundOps ==
    {"softDeleteManyOrderItem", "bulkUpdateOrderItem", "softDeleteOrderItem",
     "partialUpdateOrderItem", "updateOrderItem", "getOrderItem", "deleteOrderItem"}

\* the store's no-match results: null for one record, a count of zero for many
NoMatch(value) == value = Null \/ value = Num(0)

DuplicateOps == {"addOrderItem", "bulkInsertOrderItem", "updateOrderItem"}

\* C6: a duplicate-key error (code 11000) raised by the store during
\* addOrderItem, bulkInsertOrderItem or updateOrderItem yields isDuplicate,
\* never a generic failureResponse.
C6_DuplicateKeyIsDuplicate ==
    (/\ Responded /\ req.op \in DuplicateOps /\ Thrown
     /\ outcome.error.code = DuplicateKey) =>
        resp = isDuplicate

\* a full update hit the unique index
C6_Witness ==
    /\ Responded /\ req.op = "updateOrderItem" /\ Thrown
    /\ outcome.error.code = DuplicateKey

\* C7: getOrderItem with a malformed identifier responds invalidObjectId and
\* issues no store query; getSingleDocument is called only with an identifier
\* that passed the format check.
C7_InvalidIdNoQuery ==
    /\ (req.op = "getOrderItem" /\ ~ObjectIDisValid(req.id)) =>
          /\ Responded
          /\ resp = invalidObjectId
          /\ call = NoCall
          /\ trace = <<"response">>
    /\ call.fn = "getSingleDocument" => ObjectIDisValid(req.id)

\* getOrderItem was called with 24 characters that are not hexadecimal
C7_Witness ==
    /\ Responded /\ req.op = "getOrderItem"
    /\ req.id.len = 24 /\ ~req.id.hex

\* a caught error that is neither validation-kind nor duplicate-key
GenericError(error) == error.name # "ValidationError" /\ error.code # DuplicateKey

BareFailureOps ==
    {"softDeleteManyOrderItem", "deleteManyOrderItem", "softDeleteOrderItem", "deleteOrderItem"}

WriteOps ==
    {"addOrderItem", "bulkInsertOrderItem", "bulkUpdateOrderItem",
     "partialUpdateOrderItem", "updateOrderItem"}

ValidationMessage(error) == Template("Invalid Data, Validation Failed at ", error.message)

C10_ExactlyOneCall ==
    Responded => trace = <<"call", "settled", "response">>

EarlyKinds == {"inValidParam", "badRequest", "invalidObjectId"}

\* C10 amended: every invocation issues at most one store call: none when the
\* request is turned down before the store is reached (inValidParam,
\* badRequest, invalidObjectId, or an exception thrown while the payload is
\* prepared), exactly one otherwise; it produces exactly one response from
\* the envelope set, never before the call has settled, and every outcome of
\* the call, a raised error included, is answered by the handler.
C10_AtMostOneCallOneResponse ==
    /\ trace \in {<<>>, <<"call">>, <<"call", "settled">>,
                  <<"call", "settled", "response">>, <<"response">>}
    /\ pc \in {"await", "settled"} => resp = NoResponse
    /\ pc = "settled" => ENABLED Next
    /\ Responded =>
          /\ resp.kind \in EnvelopeKinds
          /\ trace \in {<<"call", "settled", "response">>, <<"response">>}
          /\ resp.kind \in EarlyKinds => trace = <<"response">>
          /\ trace = <<"response">> =>
                \/ resp.kind \in EarlyKinds
                \/ req.op = "bulkInsertOrderItem" /\ resp.kind = "failureResponse"

\* a request turned down by validation: one response, no store call
C10_Witness ==
    /\ Responded /\ req.op = "addOrderItem"
    /\ resp.kind = "inValidParam"
    /\ trace = <<"response">>

====
